---------------------------- MODULE Spec2Model ----------------------------
(***************************************************************************)
(* Resolver (src/src/resolver.cpp) and user-function calls                 *)
(* (src/src/function.cpp, src/include/interpreter.hpp) of the tree-walking *)
(* interpreter.  The AST is data; the resolver is a recursive walk over it *)
(* whose C++ exceptions are a `thrown' field of the resolver state; the    *)
(* interpreter is a small-step machine with an explicit continuation stack.*)
(***************************************************************************)
EXTENDS Integers, Sequences, FiniteSets, TLC

VARIABLES
    \* ---- Resolver object (resolver.hpp fields) ----
    scopes,          \* std::vector<std::map<std::string,bool>>
    function_kind,   \* std::optional<FunctionKind>, "NONE" is nullopt
    class_kind,      \* ClassKind
    position,        \* top-level statements resolved so far
    last,            \* the last top-level resolve(stmt): input, output, report
    \* ---- resolve_local in isolation ----
    node,            \* the Expr node handed to resolve_local
    lexeme,          \* the identifier handed to resolve_local
    \* ---- Interpreter ----
    program,         \* the resolved statements handed to interpret()
    envs,            \* heap of Environment objects
    environment,     \* Interpreter::environment (index into envs)
    kont,            \* the native call stack of the tree walk
    recursion_depth, \* Interpreter::recursion_depth
    status,          \* "ready" | "rejected" | "running" | "done" | "error"
                     \* | "escaped" (a Return signal left interpret())
    signal,          \* the exception in flight, if any
    output,          \* values written by print
    completed        \* how the last finished call ended (history)

vars == <<scopes, function_kind, class_kind, position, last, node, lexeme,
          program, envs, environment, kont, recursion_depth, status, signal,
          output, completed>>

resolverVars == <<scopes, function_kind, class_kind, position, last>>
localVars == <<node, lexeme>>
interpVars == <<program, envs, environment, kont, recursion_depth, status,
                signal, output, completed>>

(***************************************************************************)
(* AST                                                                     *)
(***************************************************************************)
UNSET == -1          \* Expr::depth not annotated
NOTHROW == ""

Names == {"a", "b"}

Expr(e, name, params, body, sub, v) ==
    [e |-> e, name |-> name, depth |-> UNSET, params |-> params,
     body |-> body, sub |-> sub, v |-> v]

Empty == Expr("Empty", "", <<>>, <<>>, <<>>, 0)
Literal(v) == Expr("Literal", "", <<>>, <<>>, <<>>, v)
Variable(n) == Expr("Variable", n, <<>>, <<>>, <<>>, 0)
This == Expr("This", "this", <<>>, <<>>, <<>>, 0)
Lambda(ps, body) == Expr("Lambda", "", ps, body, <<>>, 0)
Call(callee, args) == Expr("Call", "", <<>>, <<>>, <<callee>> \o args, 0)

Stmt(s, name, params, body, kind, expr) ==
    [s |-> s, name |-> name, params |-> params, body |-> body,
     kind |-> kind, expr |-> expr]

VarStmt(n, init) == Stmt("VarStmt", n, <<>>, <<>>, "NONE", init)
ExprStmt(x) == Stmt("ExprStmt", "", <<>>, <<>>, "NONE", x)
PrintStmt(x) == Stmt("PrintStmt", "", <<>>, <<>>, "NONE", x)
BlockStmt(ss) == Stmt("BlockStmt", "", <<>>, ss, "NONE", Empty)
FunctionStmt(n, ps, body, kind) == Stmt("FunctionStmt", n, ps, body, kind, Empty)
ReturnStmt(x) == Stmt("ReturnStmt", "", <<>>, <<>>, "NONE", x)
ClassStmt(n, methods) == Stmt("ClassStmt", n, <<>>, methods, "NONE", Empty)

(***************************************************************************)
(* Resolver                                                                *)
(***************************************************************************)
ErrDuplicate == "Variable with this name is already declared in this scope"
ErrOwnInit == "Can't read local variable in its own initializer."
ErrTopReturn == "Can't return from top-level code"
ErrInitReturn == "Can't return values from 'init' methods"
ErrThisNoClass == "Can't use 'this' outside of a class"
ErrThisUnbound == "Can't use 'this' in unbound methods"

EmptyScope == [n \in {} |-> FALSE]

\* The resolver's fields, the exception in flight, the diagnostics reported
\* and the statements resolve(stmt) was called on.
ResolverState(sc, fk, ck) ==
    [scopes |-> sc, function_kind |-> fk, class_kind |-> ck,
     thrown |-> NOTHROW, errors |-> <<>>, log |-> <<>>]

Throw(r, msg) == [r EXCEPT !.thrown = msg]

declare(r, id) ==
    IF r.scopes # <<>>
    THEN LET top == r.scopes[Len(r.scopes)] IN
         IF id \in DOMAIN top
         THEN Throw(r, ErrDuplicate)
         ELSE [r EXCEPT !.scopes[Len(r.scopes)] = (id :> FALSE) @@ top]
    ELSE r

define(r, id) ==
    IF r.scopes # <<>>
    THEN [r EXCEPT !.scopes[Len(r.scopes)] = (id :> TRUE) @@ @]
    ELSE r

\* resolve_local, but skipping a scope where the name is only declared
RECURSIVE resolve_local_defined_only(_, _, _, _)
resolve_local_defined_only(nd, id, sc, i) ==
    IF i < 0 THEN nd
    ELSE IF id \in DOMAIN sc[i + 1] /\ sc[i + 1][id]
         THEN [nd EXCEPT !.depth = Len(sc) - 1 - i]
         ELSE resolve_local_defined_only(nd, id, sc, i - 1)

\* The loop of resolve_local: i runs from size-1 down to 0 (0-based).
RECURSIVE resolve_local_from(_, _, _, _)
resolve_local_from(nd, id, sc, i) ==
    IF i < 0 THEN nd
    ELSE IF id \in DOMAIN sc[i + 1]
         THEN [nd EXCEPT !.depth = Len(sc) - 1 - i]
         ELSE resolve_local_from(nd, id, sc, i - 1)

resolve_local(nd, id, sc) == resolve_local_from(nd, id, sc, Len(sc) - 1)

push_scope(r, scope) == [r EXCEPT !.scopes = Append(@, scope)]
pop_scope(r) == [r EXCEPT !.scopes = SubSeq(@, 1, Len(@) - 1)]

\* for (param : params) { declare(param); define(param); }
RECURSIVE DeclareParamsFrom(_, _, _)
DeclareParamsFrom(r, params, i) ==
    IF i > Len(params) THEN r
    ELSE LET d == declare(r, params[i]) IN
         IF d.thrown # NOTHROW THEN d
         ELSE DeclareParamsFrom(define(d, params[i]), params, i + 1)

(* Resolve stands for the Resolver's overloaded resolve():                *)
(* Resolve("stmt", ...) is resolve(const stmt &), Resolve("expr", ...) is *)
(* resolve(const expr &). Each operator returns [r |-> the resolver       *)
(* afterwards, n |-> the node as annotated]; r.thrown is the              *)
(* CompiletimeError in flight.                                            *)
RECURSIVE Resolve(_, _, _, _)

\* A loop over a list, at its element i
Loop(items, i) == [items |-> items, i |-> i]

\* resolve(const std::vector<stmt> &) from statement x.i on; statement i
\* has path p \o <<i>>
ResolveStmtsFrom(x, r, p) ==
    IF x.i > Len(x.items) THEN [r |-> r, n |-> x.items]
    ELSE LET res == Resolve("stmt", x.items[x.i], r, p \o <<x.i>>) IN
         Resolve("stmts", Loop([x.items EXCEPT ![x.i] = res.n], x.i + 1),
                 res.r, p)

resolve_function(params, body, type, r, p) ==
    LET enclosing_function == r.function_kind
        r1 == push_scope([r EXCEPT !.function_kind = type], EmptyScope)
        r2 == DeclareParamsFrom(r1, params, 1)
    IN  IF r2.thrown # NOTHROW THEN [r |-> r2, n |-> body]
        ELSE LET res == Resolve("stmts", Loop(body, 1),
                                push_scope(r2, EmptyScope), p)
             IN  [r |-> [pop_scope(pop_scope(res.r))
                            EXCEPT !.function_kind = enclosing_function],
                  n |-> res.n]

visit_BlockStmt(st, r, p) ==
    LET res == Resolve("stmts", Loop(st.body, 1), push_scope(r, EmptyScope), p)
    IN  [r |-> pop_scope(res.r), n |-> [st EXCEPT !.body = res.n]]

visit_VarStmt(st, r, p) ==
    LET r1 == declare(r, st.name) IN
    IF r1.thrown # NOTHROW THEN [r |-> r1, n |-> st]
    ELSE LET res == Resolve("expr", st.expr, r1, p \o <<0>>) IN
         IF res.r.thrown # NOTHROW
         THEN [r |-> res.r, n |-> [st EXCEPT !.expr = res.n]]
         ELSE [r |-> define(res.r, st.name), n |-> [st EXCEPT !.expr = res.n]]

visit_Variable(nd, r) ==
    IF /\ r.scopes # <<>>
       /\ nd.name \in DOMAIN r.scopes[Len(r.scopes)]
       /\ ~r.scopes[Len(r.scopes)][nd.name]
    THEN [r |-> Throw(r, ErrOwnInit), n |-> nd]
    ELSE [r |-> r, n |-> resolve_local(nd, nd.name, r.scopes)]

visit_FunctionStmt(st, r, p) ==
    LET r1 == declare(r, st.name) IN
    IF r1.thrown # NOTHROW THEN [r |-> r1, n |-> st]
    ELSE LET res == resolve_function(st.params, st.body, st.kind,
                                     define(r1, st.name), p)
         IN  [r |-> res.r, n |-> [st EXCEPT !.body = res.n]]

visit_Lambda(nd, r, p) ==
    LET res == resolve_function(nd.params, nd.body, "LAMDBDA", r, p)
    IN  [r |-> res.r, n |-> [nd EXCEPT !.body = res.n]]

visit_ReturnStmt(st, r, p) ==
    IF r.function_kind = "NONE"
    THEN [r |-> Throw(r, ErrTopReturn), n |-> st]
    ELSE IF r.function_kind = "CONSTRUCTOR" /\ st.expr.e # "Empty"
    THEN [r |-> Throw(r, ErrInitReturn), n |-> st]
    ELSE LET res == Resolve("expr", st.expr, r, p \o <<0>>)
         IN  [r |-> res.r, n |-> [st EXCEPT !.expr = res.n]]

\* The loop over the methods in visit(ClassStmt &); the body of method j
\* has its paths under p \o <<j>>.
ResolveMethodsFrom(x, r, p) ==
    IF x.i > Len(x.items) THEN [r |-> r, n |-> x.items]
    ELSE LET m == x.items[x.i]
             kind == IF m.name = "init" THEN "CONSTRUCTOR" ELSE m.kind
             res == resolve_function(m.params, m.body, kind, r,
                                     p \o <<x.i>>)
             ms1 == [x.items EXCEPT ![x.i].kind = kind, ![x.i].body = res.n]
         IN  IF res.r.thrown # NOTHROW THEN [r |-> res.r, n |-> ms1]
             ELSE Resolve("methods", Loop(ms1, x.i + 1), res.r, p)

visit_ClassStmt(st, r, p) ==
    LET previous_type == r.class_kind
        r1 == declare([r EXCEPT !.class_kind = "CLASS"], st.name)
    IN  IF r1.thrown # NOTHROW THEN [r |-> r1, n |-> st]
        ELSE LET r2 == push_scope(define(r1, st.name), "this" :> TRUE)
                 res == Resolve("methods", Loop(st.body, 1), r2, p)
             IN  IF res.r.thrown # NOTHROW
                 THEN [r |-> res.r, n |-> [st EXCEPT !.body = res.n]]
                 ELSE [r |-> [pop_scope(res.r)
                                EXCEPT !.class_kind = previous_type],
                       n |-> [st EXCEPT !.body = res.n]]

visit_This(nd, r) ==
    IF r.class_kind = "NONE"
    THEN [r |-> Throw(r, ErrThisNoClass), n |-> nd]
    ELSE IF r.function_kind = "UNBOUND"
    THEN [r |-> Throw(r, ErrThisUnbound), n |-> nd]
    ELSE [r |-> r, n |-> resolve_local(nd, nd.name, r.scopes)]

\* visit(ExprStmt &) and visit(PrintStmt &)
visit_ExprStmt(st, r, p) ==
    LET res == Resolve("expr", st.expr, r, p \o <<0>>)
    IN  [r |-> res.r, n |-> [st EXCEPT !.expr = res.n]]

\* The callee and then the arguments of visit(Call &), in order.
ResolveArgsFrom(x, r, p) ==
    IF x.i > Len(x.items) THEN [r |-> r, n |-> x.items]
    ELSE LET res == Resolve("expr", x.items[x.i], r, p \o <<x.i>>)
             xs1 == [x.items EXCEPT ![x.i] = res.n]
         IN  IF res.r.thrown # NOTHROW THEN [r |-> res.r, n |-> xs1]
             ELSE Resolve("args", Loop(xs1, x.i + 1), res.r, p)

visit_Call(nd, r, p) ==
    LET res == Resolve("args", Loop(nd.sub, 1), r, p)
    IN  [r |-> res.r, n |-> [nd EXCEPT !.sub = res.n]]

\* resolve(const stmt &) reports the CompiletimeError its statement threw
report(res, p) ==
    IF res.r.thrown # NOTHROW
    THEN [r |-> [res.r EXCEPT !.errors = Append(@, [msg |-> res.r.thrown,
                                                     at |-> p]),
                              !.thrown = NOTHROW],
          n |-> res.n]
    ELSE res

\* The overloads of resolve(), the accept() dispatch to the visit methods
\* and the loops
Resolve(what, x, r, p) ==
    CASE what = "stmt" -> report(Resolve("accept", x,
                                         [r EXCEPT !.log = Append(@, p)], p), p)
      [] what = "accept" /\ x.s = "VarStmt" -> visit_VarStmt(x, r, p)
      [] what = "accept" /\ x.s = "BlockStmt" -> visit_BlockStmt(x, r, p)
      [] what = "accept" /\ x.s = "FunctionStmt" ->
            visit_FunctionStmt(x, r, p)
      [] what = "accept" /\ x.s = "ReturnStmt" ->
            visit_ReturnStmt(x, r, p)
      [] what = "accept" /\ x.s = "ClassStmt" -> visit_ClassStmt(x, r, p)
      [] what = "accept" -> visit_ExprStmt(x, r, p)
      [] what = "expr" /\ x.e = "Variable" -> visit_Variable(x, r)
      [] what = "expr" /\ x.e = "This" -> visit_This(x, r)
      [] what = "expr" /\ x.e = "Lambda" -> visit_Lambda(x, r, p)
      [] what = "expr" /\ x.e = "Call" -> visit_Call(x, r, p)
      [] what = "stmts" -> ResolveStmtsFrom(x, r, p)
      [] what = "methods" -> ResolveMethodsFrom(x, r, p)
      [] what = "args" -> ResolveArgsFrom(x, r, p)
      [] OTHER -> [r |-> r, n |-> x]

ResolveStmt(st, r, p) == Resolve("stmt", st, r, p)
ResolveStmts(ss, r, p) == Resolve("stmts", Loop(ss, 1), r, p)

(***************************************************************************)
(* The statements handed to the resolver                                   *)
(***************************************************************************)
MaxTopLevel == 3     \* top-level statements of a program

ParamLists == {<<>>, <<"a">>, <<"a", "b">>, <<"a", "a">>}

LeafStmts ==
    {VarStmt("a", Literal(1)), PrintStmt(Variable("a")), PrintStmt(This),
     ReturnStmt(Empty), ReturnStmt(Literal(1))}
    \cup {VarStmt(n, Variable("a")) : n \in Names}

LeafBodies == {<<>>} \cup {<<st>> : st \in LeafStmts}

LambdaStmts ==
    {ExprStmt(Lambda(ps, body)) :
        ps \in {<<>>, <<"a", "a">>}, body \in LeafBodies}

MethodBodies ==
    {<<>>, <<PrintStmt(This)>>, <<ReturnStmt(Literal(1))>>,
     <<ReturnStmt(Empty)>>,
     <<ExprStmt(Lambda(<<>>, <<PrintStmt(This)>>))>>,
     <<VarStmt("a", Variable("a"))>>}

Methods ==
    {FunctionStmt(n, ps, body, k) :
        n \in {"m", "init"}, ps \in {<<>>, <<"a", "a">>},
        body \in MethodBodies, k \in {"METHOD", "UNBOUND"}}

ClassStmts ==
    {ClassStmt("C", <<m>>) : m \in Methods}
    \cup {ClassStmt("C", <<m1, m2>>) :
            m1 \in {FunctionStmt("m", ps, <<>>, "METHOD") :
                        ps \in {<<>>, <<"a", "a">>}},
            m2 \in {FunctionStmt("n", <<>>, body, "METHOD") :
                        body \in MethodBodies}}

TopStmts ==
    LeafStmts
    \cup {BlockStmt(body) : body \in LeafBodies}
    \cup {BlockStmt(<<VarStmt("a", Literal(1)), st>>) : st \in LeafStmts}
    \cup {BlockStmt(<<BlockStmt(body)>>) : body \in LeafBodies}
    \cup {FunctionStmt("f", ps, body, "FUNCTION") :
            ps \in ParamLists, body \in LeafBodies}
    \cup {FunctionStmt("f", <<"a">>, <<st>>, "FUNCTION") : st \in LambdaStmts}
    \cup LambdaStmts
    \cup ClassStmts

EmptyStmt == Stmt("EmptyStmt", "", <<>>, <<>>, "NONE", Empty)

(***************************************************************************)
(* Resolving a program, one top-level statement after the other            *)
(***************************************************************************)
NoResolve == [stmt |-> EmptyStmt, node |-> EmptyStmt, errors |-> <<>>,
              log |-> <<>>]

ResolverInit ==
    /\ scopes = <<>>
    /\ function_kind = "NONE"
    /\ class_kind = "NONE"
    /\ position = 0
    /\ last = NoResolve

\* One iteration of the loop of resolve(const std::vector<stmt> &) on the
\* program's top-level statements.
ResolveTopLevel(st) ==
    /\ position < MaxTopLevel
    /\ LET res == ResolveStmt(st, ResolverState(scopes, function_kind,
                                                class_kind), <<>>)
       IN  /\ scopes' = res.r.scopes
           /\ function_kind' = res.r.function_kind
           /\ class_kind' = res.r.class_kind
           /\ position' = position + 1
           /\ last' = [stmt |-> st, node |-> res.n, errors |-> res.r.errors,
                       log |-> res.r.log]

(***************************************************************************)
(* Interpreter: values, environments, the native stack                     *)
(***************************************************************************)
\* A ceiling one call too low
MAX_RECURSION_DEPTH_one_short == 1000 - 1

\* CheckedRecursiveDepth::MAX_RECURSION_DEPTH
MAX_RECURSION_DEPTH == 1000

\* Token::Value.  A Function holds its declaration only; `closure' is
\* history (the environment current when the function was declared) and
\* is read by no action.
Value(t, v, decl, closure) == [t |-> t, v |-> v, decl |-> decl, closure |-> closure]
Nil == Value("nil", 0, EmptyStmt, 0)
Num(v) == Value("num", v, EmptyStmt, 0)
Function(decl, closure) == Value("fn", 0, decl, closure)
Display(val) == [t |-> val.t, v |-> val.v]

\* Environment: `lexical' is history, the frame of the enclosing lexical
\* scope (for a call's parameter frame, the function's closure).
Environment(enclosing, values, lexical) ==
    [enclosing |-> enclosing, values |-> values, lexical |-> lexical]
NoValues == [n \in {} |-> Nil]

NoSignal == [t |-> "none", val |-> Nil, msg |-> "", calls |-> 0]
\* Interpreter::Return; `calls' is history, the calls in progress at the throw
Return(val, calls) == [t |-> "Return", val |-> val, msg |-> "", calls |-> calls]
RuntimeError(msg, calls) ==
    [t |-> "RuntimeError", val |-> Nil, msg |-> msg, calls |-> calls]

NoCall == [via |-> "none", val |-> Display(Nil)]

\* Activations on the native stack: interpret(), execute_block() and
\* Function::call() with the CheckedRecursiveDepth of the call expression.
InterpretFrame(stmts) == [k |-> "interpret", rest |-> stmts]
BlockFrame(stmts, previous) ==
    [k |-> "block", rest |-> stmts, previous |-> previous]
CallFrame(then, name, frame) ==
    [k |-> "call", then |-> then, name |-> name, frame |-> frame]

CallsInProgress(k) == Cardinality({i \in DOMAIN k : k[i].k = "call"})

RECURSIVE Walk(_, _, _, _)
\* d links up from frame e, along `enclosing' or along `lexical'
Walk(heap, e, d, link) ==
    IF d = 0 \/ e = 0 THEN e ELSE Walk(heap, heap[e][link], d - 1, link)

\* Environment::get_at / get_global
get_at(heap, e, d, name) ==
    LET f == Walk(heap, e, d, "enclosing") IN
    IF f # 0 /\ name \in DOMAIN heap[f].values
    THEN [ok |-> TRUE, val |-> heap[f].values[name]]
    ELSE [ok |-> FALSE, val |-> Nil]

\* Interpreter::lookup_variable
lookup_variable(heap, e, nd) ==
    IF nd.depth # UNSET THEN get_at(heap, e, nd.depth, nd.name)
    ELSE get_at(heap, 1, 0, nd.name)

\* get_evaluated on a literal, a variable or nothing
Evaluate(heap, e, nd) ==
    CASE nd.e = "Literal" -> [ok |-> TRUE, val |-> Num(nd.v)]
      [] nd.e = "Variable" -> lookup_variable(heap, e, nd)
      [] OTHER -> [ok |-> TRUE, val |-> Nil]

\* Environment::define
env_define(heap, e, name, val) ==
    [heap EXCEPT ![e].values = (name :> val) @@ @]

RECURSIVE BindFrom(_, _, _, _)
\* The parameter loop of Function::call
BindFrom(values, params, args, i) ==
    IF i > Len(params) THEN values
    ELSE BindFrom((params[i] :> args[i]) @@ values, params, args, i + 1)

\* Function::call without its catch clause
CatchesNothing(sig) == FALSE

\* catch (const Interpreter::Return &) in Function::call
Catches(sig) == sig.t = "Return"

\* What Function::call returns: returned.val, or NullType{}
call_result(sig) == IF sig.t = "Return" THEN sig.val ELSE Nil

(***************************************************************************)
(* Variables a specification does not use keep their initial value         *)
(***************************************************************************)
LocalIdle == node = Empty /\ lexeme = ""
InterpIdle ==
    /\ program = <<>>
    /\ envs = <<>>
    /\ environment = 0
    /\ kont = <<>>
    /\ recursion_depth = 0
    /\ status = "idle"
    /\ signal = NoSignal
    /\ output = <<>>
    /\ completed = NoCall

InitResolver == ResolverInit /\ LocalIdle /\ InterpIdle

NextResolver ==
    \E st \in TopStmts :
        ResolveTopLevel(st) /\ UNCHANGED localVars /\ UNCHANGED interpVars

SpecResolver == InitResolver /\ [][NextResolver]_vars

(***************************************************************************)
(* Lexical facts about a statement, read off the AST alone                 *)
(***************************************************************************)
RECURSIVE StmtPaths(_, _)
RECURSIVE ExprStmtPaths(_, _)
\* The paths of the statements nested in an expression (lambda bodies).
ExprStmtPaths(nd, p) ==
    CASE nd.e = "Lambda" ->
            UNION {StmtPaths(nd.body[i], p \o <<i>>) : i \in DOMAIN nd.body}
      [] nd.e = "Call" ->
            UNION {ExprStmtPaths(nd.sub[k], p \o <<k>>) : k \in DOMAIN nd.sub}
      [] OTHER -> {}

\* The paths of all statements of the tree rooted at st, st included.
StmtPaths(st, p) ==
    {p} \cup
    CASE st.s \in {"BlockStmt", "FunctionStmt"} ->
            UNION {StmtPaths(st.body[i], p \o <<i>>) : i \in DOMAIN st.body}
      [] st.s = "ClassStmt" ->
            UNION {UNION {StmtPaths(st.body[j].body[i], p \o <<j, i>>) :
                            i \in DOMAIN st.body[j].body} :
                   j \in DOMAIN st.body}
      [] OTHER -> ExprStmtPaths(st.expr, p \o <<0>>)

\* The return statements that are in no function, method or lambda body.
RECURSIVE FreeReturnPaths(_, _)
FreeReturnPaths(st, p) ==
    CASE st.s = "ReturnStmt" -> {p}
      [] st.s = "BlockStmt" ->
            UNION {FreeReturnPaths(st.body[i], p \o <<i>>) :
                   i \in DOMAIN st.body}
      [] OTHER -> {}

IsSelfInit(st) ==
    st.s = "VarStmt" /\ st.expr.e = "Variable" /\ st.expr.name = st.name

\* The statements `var x = x;' that are in a block, function, lambda or
\* method body of st (st itself, a top-level statement, is at global scope).
RECURSIVE LocalSelfInitPaths(_, _, _)
LocalSelfInitPaths(st, p, local) ==
    (IF local /\ IsSelfInit(st) THEN {p} ELSE {}) \cup
    CASE st.s \in {"BlockStmt", "FunctionStmt"} ->
            UNION {LocalSelfInitPaths(st.body[i], p \o <<i>>, TRUE) :
                   i \in DOMAIN st.body}
      [] st.s = "ClassStmt" ->
            UNION {UNION {LocalSelfInitPaths(st.body[j].body[i],
                                             p \o <<j, i>>, TRUE) :
                            i \in DOMAIN st.body[j].body} :
                   j \in DOMAIN st.body}
      [] st.expr.e = "Lambda" ->
            UNION {LocalSelfInitPaths(st.expr.body[i], p \o <<0, i>>, TRUE) :
                   i \in DOMAIN st.expr.body}
      [] OTHER -> {}

\* ctx: "none" outside any class body, "unbound" inside an unbound method,
\* "bound" inside any other method.  The statements whose expression is,
\* or holds in a lambda body, a `this' that must be rejected.
MethodCtx(m) ==
    IF m.kind = "UNBOUND" /\ m.name # "init" THEN "unbound" ELSE "bound"

RECURSIVE RejectedThisPaths(_, _, _)
RejectedThisPaths(st, p, ctx) ==
    CASE st.s \in {"BlockStmt", "FunctionStmt"} ->
            UNION {RejectedThisPaths(st.body[i], p \o <<i>>, ctx) :
                   i \in DOMAIN st.body}
      [] st.s = "ClassStmt" ->
            UNION {UNION {RejectedThisPaths(st.body[j].body[i], p \o <<j, i>>,
                                            MethodCtx(st.body[j])) :
                            i \in DOMAIN st.body[j].body} :
                   j \in DOMAIN st.body}
      [] st.expr.e = "This" -> IF ctx = "bound" THEN {} ELSE {p}
      [] st.expr.e = "Lambda" ->
            UNION {RejectedThisPaths(st.expr.body[i], p \o <<0, i>>, ctx) :
                   i \in DOMAIN st.expr.body}
      [] OTHER -> {}

ReportedAt(q) == \E k \in DOMAIN last.errors : last.errors[k].at = q
Reported(msg, q) ==
    \E k \in DOMAIN last.errors : last.errors[k] = [msg |-> msg, at |-> q]
TimesResolved(q) == Cardinality({k \in DOMAIN last.log : last.log[k] = q})

(***************************************************************************)
(* Claims about the resolver                                               *)
(***************************************************************************)

\* C1: after resolving a complete program that started with an empty scope
\* stack the scope stack is empty again, also when a diagnostic was raised.
C1_ScopeStackBalanced == scopes = <<>>

\* C4: every return statement that is in no function, method or lambda body
\* is reported with "Can't return from top-level code", whatever was
\* resolved before it.
C4_TopLevelReturnReported ==
    \A q \in FreeReturnPaths(last.stmt, <<>>) : Reported(ErrTopReturn, q)

\* C5: `var a = a;' in a block, function or method scope (one the resolver
\* reaches) raises a compile-time diagnostic, and at global scope it raises
\* none, at any position among the top-level statements.
C5_SelfInitializer ==
    /\ \A q \in LocalSelfInitPaths(last.stmt, <<>>, FALSE) :
          TimesResolved(q) > 0 => ReportedAt(q)
    /\ IsSelfInit(last.stmt) => last.errors = <<>>

\* C6: every statement of the program, nested ones included, is resolved
\* exactly once, also after an earlier diagnostic.
C6_EveryStatementResolvedOnce ==
    position > 0 => \A q \in StmtPaths(last.stmt, <<>>) : TimesResolved(q) = 1

\* C10: a `this' (one the resolver reaches) outside any class body or
\* anywhere inside an unbound method is reported; a `this' directly in a
\* bound method's body is accepted and resolved to the class scope (two
\* scopes up).
C10_ThisChecked ==
    /\ \A q \in RejectedThisPaths(last.stmt, <<>>, "none") :
          TimesResolved(q) > 0 => ReportedAt(q)
    /\ last.stmt.s = "ClassStmt" =>
         \A j \in DOMAIN last.stmt.body :
            \A i \in DOMAIN last.stmt.body[j].body :
                (/\ MethodCtx(last.stmt.body[j]) = "bound"
                 /\ last.stmt.body[j].body[i] = PrintStmt(This)
                 /\ TimesResolved(<<j, i>>) = 1)
                => (/\ ~ReportedAt(<<j, i>>)
                    /\ last.node.body[j].body[i].expr.depth = 2)

(***************************************************************************)
(* resolve_local on its own: any scope stack, any identifier               *)
(***************************************************************************)
MaxStack == 3        \* scopes on the stack handed to resolve_local

ScopeMaps == UNION {[D -> BOOLEAN] : D \in SUBSET Names}
ScopeStacks == UNION {[1..k -> ScopeMaps] : k \in 0..MaxStack}

ResolverIdle ==
    /\ function_kind = "NONE"
    /\ class_kind = "NONE"
    /\ position = 0
    /\ last = NoResolve

InitLocal ==
    /\ scopes \in ScopeStacks
    /\ node = Empty
    /\ lexeme = ""
    /\ ResolverIdle
    /\ InterpIdle

\* resolve_local(node, identifier) on a Variable node not yet annotated
ResolveLocal(id) ==
    /\ node' = resolve_local(Variable(id), id, scopes)
    /\ lexeme' = id
    /\ UNCHANGED <<scopes, function_kind, class_kind, position, last>>
    /\ UNCHANGED interpVars

NextLocal == \E id \in Names : ResolveLocal(id)

SpecLocal == InitLocal /\ [][NextLocal]_vars

ScopesContaining(id) == {i \in 1..Len(scopes) : id \in DOMAIN scopes[i]}
Greatest(S) == CHOOSE i \in S : \A j \in S : j <= i

\* C7: resolve_local sets the depth to n - 1 - i for the greatest (0-based)
\* index i of a scope holding the name, whether marked declared or defined;
\* with no such scope the depth stays unset; the scope stack is unchanged.
C7_ResolveLocalDepth ==
    [][lexeme' # "" =>
        /\ scopes' = scopes
        /\ node'.depth =
              IF ScopesContaining(lexeme') = {} THEN UNSET
              ELSE Len(scopes) - 1 - (Greatest(ScopesContaining(lexeme')) - 1)
      ]_vars

\* C7's case: the name is in two scopes and the inner one wins, while it is
\* only declared (false) there.
C7_Witness ==
    /\ lexeme = "a"
    /\ Len(scopes) = 3
    /\ ScopesContaining("a") = {1, 2}
    /\ ~scopes[2]["a"]
    /\ node.depth = 1

(***************************************************************************)
(* The programs handed to interpret()                                      *)
(***************************************************************************)
MaxNest == 2         \* blocks around a call site

RECURSIVE Nested(_, _)
\* st inside k blocks
Nested(k, st) == IF k = 0 THEN st ELSE BlockStmt(<<Nested(k - 1, st)>>)

CallStmt(f, args) == ExprStmt(Call(Variable(f), args))

\* fn outer() { var x = 1; fn inner() { return x; } return inner; }
\* var g = outer(); print g();
ClosureProgram ==
    <<FunctionStmt("outer", <<>>,
        <<VarStmt("x", Literal(1)),
          FunctionStmt("inner", <<>>, <<ReturnStmt(Variable("x"))>>, "FUNCTION"),
          ReturnStmt(Variable("inner"))>>, "FUNCTION"),
      VarStmt("g", Call(Variable("outer"), <<>>)),
      PrintStmt(Call(Variable("g"), <<>>))>>

\* { var x = 1; fn f() { print x; } {..{ f(); }..} }
OuterLocalProgram(k) ==
    <<BlockStmt(<<VarStmt("x", Literal(1)),
                  FunctionStmt("f", <<>>, <<PrintStmt(Variable("x"))>>, "FUNCTION"),
                  Nested(k, CallStmt("f", <<>>))>>)>>

\* fn f(a) { var b = a; print b; } {..{ f(1); }..}
OwnLocalProgram(k) ==
    <<FunctionStmt("f", <<"a">>,
        <<VarStmt("b", Variable("a")), PrintStmt(Variable("b"))>>, "FUNCTION"),
      Nested(k, CallStmt("f", <<Literal(1)>>))>>

\* fn f() { f(); } f();
RecursionProgram ==
    <<FunctionStmt("f", <<>>, <<CallStmt("f", <<>>)>>, "FUNCTION"),
      CallStmt("f", <<>>)>>

\* fn f(a) { { return a; } print 0; }  fn g() { print f(2); print 3; }
\* g(); print 4;
NestedReturnProgram ==
    <<FunctionStmt("f", <<"a">>,
        <<BlockStmt(<<ReturnStmt(Variable("a"))>>), PrintStmt(Literal(0))>>,
        "FUNCTION"),
      FunctionStmt("g", <<>>,
        <<PrintStmt(Call(Variable("f"), <<Literal(2)>>)), PrintStmt(Literal(3))>>,
        "FUNCTION"),
      CallStmt("g", <<>>),
      PrintStmt(Literal(4))>>

\* fn f(a, a) {} return;
RejectedProgram ==
    <<FunctionStmt("f", <<"a", "a">>, <<>>, "FUNCTION"), ReturnStmt(Empty)>>

\* var x = 1; x();   and   fn f(a) {} f();   and   print y;
FailingPrograms ==
    {<<VarStmt("x", Literal(1)), CallStmt("x", <<>>)>>,
     <<FunctionStmt("f", <<"a">>, <<>>, "FUNCTION"), CallStmt("f", <<>>)>>,
     <<PrintStmt(Variable("y"))>>}

Programs ==
    {ClosureProgram, RecursionProgram, NestedReturnProgram, RejectedProgram}
    \cup {OuterLocalProgram(k) : k \in 0..MaxNest}
    \cup {OwnLocalProgram(k) : k \in 0..MaxNest}
    \cup FailingPrograms

(***************************************************************************)
(* interpret(): resolve, then execute statement by statement               *)
(***************************************************************************)
InitInterp ==
    /\ program \in Programs
    /\ envs = <<Environment(0, NoValues, 0)>>      \* globals
    /\ environment = 1
    /\ kont = <<>>
    /\ recursion_depth = 0
    /\ status = "ready"
    /\ signal = NoSignal
    /\ output = <<>>
    /\ completed = NoCall
    /\ scopes = <<>>
    /\ ResolverIdle
    /\ LocalIdle

Top == kont[Len(kont)]
Running == status = "running" /\ signal.t = "none"
Unwinding == status = "running" /\ signal.t # "none"
AtStmt == Running /\ Top.k \in {"interpret", "block"} /\ Top.rest # <<>>
Cur == Top.rest[1]
Advanced == [kont EXCEPT ![Len(kont)].rest = Tail(@)]
Popped == SubSeq(kont, 1, Len(kont) - 1)

\* interpret(): the resolver runs first; execution never begins after a
\* diagnostic.
Interpret ==
    /\ status = "ready"
    /\ LET res == ResolveStmts(program, ResolverState(<<>>, "NONE", "NONE"), <<>>)
       IN  /\ scopes' = res.r.scopes
           /\ function_kind' = res.r.function_kind
           /\ class_kind' = res.r.class_kind
           /\ IF res.r.errors # <<>>
              THEN status' = "rejected" /\ UNCHANGED <<program, kont>>
              ELSE /\ status' = "running"
                   /\ program' = res.n
                   /\ kont' = <<InterpretFrame(res.n)>>
    /\ UNCHANGED <<position, last, envs, environment, recursion_depth, signal,
                   output, completed>>
    /\ UNCHANGED localVars

\* visit(VarStmt &), visit(PrintStmt &) with an initializer/operand that
\* is no call
ExecSimple ==
    /\ AtStmt /\ Cur.s \in {"VarStmt", "PrintStmt"} /\ Cur.expr.e # "Call"
    /\ LET ev == Evaluate(envs, environment, Cur.expr) IN
       /\ signal' = IF ev.ok THEN signal
                     ELSE RuntimeError("UndefinedVariable",
                                       CallsInProgress(kont))
       /\ envs' = IF ev.ok /\ Cur.s = "VarStmt"
                   THEN env_define(envs, environment, Cur.name, ev.val)
                   ELSE envs
       /\ output' = IF ev.ok /\ Cur.s = "PrintStmt"
                     THEN Append(output, Display(ev.val)) ELSE output
    /\ kont' = Advanced
    /\ UNCHANGED <<program, environment, recursion_depth, status, completed>>
    /\ UNCHANGED resolverVars /\ UNCHANGED localVars

\* visit(FunctionStmt &): Function::Function(declaration), defined under
\* its name in the current environment
ExecFunction ==
    /\ AtStmt /\ Cur.s = "FunctionStmt"
    /\ envs' = env_define(envs, environment, Cur.name,
                          Function(Cur, environment))
    /\ kont' = Advanced
    /\ UNCHANGED <<program, environment, recursion_depth, status, signal,
                   output, completed>>
    /\ UNCHANGED resolverVars /\ UNCHANGED localVars

\* visit(BlockStmt &) entering execute_block(statements, environment)
ExecBlock ==
    /\ AtStmt /\ Cur.s = "BlockStmt"
    /\ envs' = Append(envs, Environment(environment, NoValues, environment))
    /\ environment' = Len(envs) + 1
    /\ kont' = Append(Advanced, BlockFrame(Cur.body, environment))
    /\ UNCHANGED <<program, recursion_depth, status, signal, output, completed>>
    /\ UNCHANGED resolverVars /\ UNCHANGED localVars

\* Function::call up to the first statement of the body: the parameter
\* frame, the bindings, execute_block(body, frame)
function_call(heap, current, fn, args) ==
    LET frame == Environment(current, BindFrom(NoValues, fn.decl.params, args, 1),
                             fn.closure)
        body == Environment(Len(heap) + 1, NoValues, Len(heap) + 1)
    IN  heap \o <<frame, body>>

\* visit(Call &) and the statement around it: callee and arguments are
\* evaluated, the callee checked, the CheckedRecursiveDepth constructed,
\* Function::call entered.
ExecCall ==
    /\ AtStmt /\ Cur.s \in {"VarStmt", "PrintStmt", "ExprStmt"}
    /\ Cur.expr.e = "Call"
    /\ LET sub == Cur.expr.sub
           callee == Evaluate(envs, environment, sub[1])
           evs == [i \in 1..(Len(sub) - 1) |->
                     Evaluate(envs, environment, sub[i + 1])]
           args == [i \in DOMAIN evs |-> evs[i].val]
           then == CASE Cur.s = "VarStmt" -> "define"
                     [] Cur.s = "PrintStmt" -> "print"
                     [] OTHER -> "discard"
           calls == CallsInProgress(kont)
           refused ==
             CASE ~callee.ok \/ (\E i \in DOMAIN evs : ~evs[i].ok) ->
                    "UndefinedVariable"
               [] callee.val.t # "fn" -> "NotCallable"
               [] Len(args) # Len(callee.val.decl.params) -> "ArityMismatch"
               [] recursion_depth >= MAX_RECURSION_DEPTH -> "StackOverflow"
               [] OTHER -> ""
       IN  IF refused # ""
           THEN /\ signal' = RuntimeError(refused, calls)
                /\ kont' = Advanced
                /\ UNCHANGED <<envs, environment, recursion_depth>>
           ELSE /\ recursion_depth' = recursion_depth + 1
                /\ envs' = function_call(envs, environment, callee.val, args)
                /\ environment' = Len(envs) + 2
                /\ kont' = Advanced \o
                       <<CallFrame(then, Cur.name, Len(envs) + 1),
                         BlockFrame(callee.val.decl.body, environment)>>
                /\ UNCHANGED signal
    /\ UNCHANGED <<program, status, output, completed>>
    /\ UNCHANGED resolverVars /\ UNCHANGED localVars

\* visit(ReturnStmt &): throw Interpreter::Return(value)
ExecReturn ==
    /\ AtStmt /\ Cur.s = "ReturnStmt"
    /\ LET ev == Evaluate(envs, environment, Cur.expr) IN
       signal' = IF ev.ok THEN Return(ev.val, CallsInProgress(kont))
                 ELSE RuntimeError("UndefinedVariable", CallsInProgress(kont))
    /\ kont' = Advanced
    /\ UNCHANGED <<program, envs, environment, recursion_depth, status,
                   output, completed>>
    /\ UNCHANGED resolverVars /\ UNCHANGED localVars

\* execute_block left, normally or by an exception: the previous
\* environment is current again
LeaveBlock ==
    /\ status = "running" /\ Top.k = "block"
    /\ ~(signal.t = "none" /\ Top.rest # <<>>)
    /\ environment' = Top.previous
    /\ kont' = Popped
    /\ UNCHANGED <<program, envs, recursion_depth, status, signal, output,
                   completed>>
    /\ UNCHANGED resolverVars /\ UNCHANGED localVars

\* Function::call left with a value (body done, or Return caught), the
\* CheckedRecursiveDepth destroyed, the value used by the statement
LeaveCall ==
    /\ status = "running" /\ Top.k = "call"
    /\ ~(signal.t # "none" /\ ~Catches(signal))
    /\ LET val == call_result(signal) IN
       /\ envs' = IF Top.then = "define"
                   THEN env_define(envs, environment, Top.name, val) ELSE envs
       /\ output' = IF Top.then = "print"
                     THEN Append(output, Display(val)) ELSE output
       /\ completed' = [via |-> IF signal.t = "none" THEN "Nil" ELSE signal.t,
                        val |-> Display(val)]
    /\ signal' = NoSignal
    /\ recursion_depth' = recursion_depth - 1
    /\ kont' = Popped
    /\ UNCHANGED <<program, environment, status>>
    /\ UNCHANGED resolverVars /\ UNCHANGED localVars

\* An exception Function::call does not catch passes through it; the
\* CheckedRecursiveDepth is destroyed
UnwindCall ==
    /\ Unwinding /\ Top.k = "call" /\ ~Catches(signal)
    /\ recursion_depth' = recursion_depth - 1
    /\ completed' = [via |-> signal.t, val |-> Display(Nil)]
    /\ kont' = Popped
    /\ UNCHANGED <<program, envs, environment, status, signal, output>>
    /\ UNCHANGED resolverVars /\ UNCHANGED localVars

\* interpret() ends: all statements done, or an exception reached it
LeaveInterpret ==
    /\ status = "running" /\ Top.k = "interpret"
    /\ ~(signal.t = "none" /\ Top.rest # <<>>)
    /\ status' = CASE signal.t = "none" -> "done"
                    [] signal.t = "Return" -> "escaped"
                    [] OTHER -> "error"
    /\ kont' = <<>>
    /\ UNCHANGED <<program, envs, environment, recursion_depth, signal,
                   output, completed>>
    /\ UNCHANGED resolverVars /\ UNCHANGED localVars

NextInterp ==
    \/ Interpret
    \/ ExecSimple
    \/ ExecFunction
    \/ ExecBlock
    \/ ExecCall
    \/ ExecReturn
    \/ LeaveBlock
    \/ LeaveCall
    \/ UnwindCall
    \/ LeaveInterpret

SpecInterp == InitInterp /\ [][NextInterp]_vars

(***************************************************************************)
(* Claims about calls                                                      *)
(***************************************************************************)
Final == status \in {"done", "error", "rejected", "escaped"}
IsClosureProgram == Len(program) = 3 /\ program[1].name = "outer"

\* C2: the frame created for a call has the function's closure (the
\* environment current at its declaration) as its enclosing frame, so the
\* function returned by outer() still reads outer's local x = 1.
C2_CallFrameEnclosesClosure ==
    /\ \A i \in DOMAIN kont :
          kont[i].k = "call" =>
            envs[kont[i].frame].enclosing = envs[kont[i].frame].lexical
    /\ (Final /\ IsClosureProgram) => output = <<Display(Num(1))>>

\* The variable references of the statement about to be executed
PendingRefs ==
    IF Cur.expr.e = "Variable" THEN {Cur.expr}
    ELSE {Cur.expr.sub[k] : k \in {j \in DOMAIN Cur.expr.sub :
                                      Cur.expr.sub[j].e = "Variable"}}

\* C3: during a call, walking the annotated depth d of a reference up the
\* enclosing links from the current frame reaches the frame of the lexical
\* scope d levels up, where the resolver found the name declared.
C3_DepthReachesDeclaringFrame ==
    (AtStmt /\ CallsInProgress(kont) > 0) =>
        \A nd \in PendingRefs :
            nd.depth # UNSET =>
                Walk(envs, environment, nd.depth, "enclosing")
                    = Walk(envs, environment, nd.depth, "lexical")

NearestCall(k) == Greatest({i \in DOMAIN k : k[i].k = "call"})

\* C8: a Return signal in flight has ended no call; it is caught by the
\* nearest enclosing call, which yields its value and leaves the calls
\* around it in progress; a call whose body completes yields Nil; the
\* signal never leaves interpret().
C8_ReturnCaughtByNearestCall ==
    /\ [](/\ status # "escaped"
          /\ signal.t = "Return" =>
                /\ signal.calls >= 1
                /\ CallsInProgress(kont) = signal.calls)
    /\ [][/\ (signal.t = "Return" /\ signal' # signal) =>
                (/\ Len(kont) = NearestCall(kont)
                 /\ kont' = SubSeq(kont, 1, NearestCall(kont) - 1)
                 /\ signal'.t = "none"
                 /\ status' = "running"
                 /\ completed' = [via |-> "Return", val |-> Display(signal.val)]
                 /\ (Top.then = "print" =>
                       output' = Append(output, Display(signal.val))))
          /\ (Running /\ Top.k = "call") =>
                completed' = [via |-> "Nil", val |-> Display(Nil)]
         ]_vars

\* C8's case: f's `return a' inside a block was caught by the call f(2)
\* while the call g() around it is still in progress.
C8_Witness ==
    /\ completed = [via |-> "Return", val |-> Display(Num(2))]
    /\ CallsInProgress(kont) = 1
    /\ status = "running"
    /\ output = <<Display(Num(2)), Display(Num(3))>>

\* A call statement whose callee is a function of matching arity
CallAttempt ==
    /\ AtStmt /\ Cur.expr.e = "Call"
    /\ LET callee == Evaluate(envs, environment, Cur.expr.sub[1]) IN
       /\ callee.ok /\ callee.val.t = "fn"
       /\ Len(callee.val.decl.params) = Len(Cur.expr.sub) - 1
       /\ \A k \in 2..Len(Cur.expr.sub) :
             Evaluate(envs, environment, Cur.expr.sub[k]).ok

\* C9: recursion_depth is the number of calls in progress and at most 1000;
\* StackOverflow is raised with exactly 1000 calls in progress; a call
\* attempted then is refused before a frame is created or a statement run.
C9_RecursionGuard ==
    /\ [](/\ recursion_depth = CallsInProgress(kont)
          /\ recursion_depth <= 1000
          /\ signal.msg = "StackOverflow" => signal.calls = 1000)
    /\ [][(CallAttempt /\ CallsInProgress(kont) = 1000) =>
                /\ signal'.msg = "StackOverflow"
                /\ envs' = envs
                /\ environment' = environment
                /\ recursion_depth' = recursion_depth
                /\ output' = output
                /\ kont' = Advanced
          ]_vars

\* C9's case: the call of f in fn f() { f(); } has just been refused with
\* 1000 calls of f in progress.
C9_Witness ==
    /\ signal.msg = "StackOverflow"
    /\ signal.calls = 1000
    /\ recursion_depth = 1000
    /\ CallsInProgress(kont) = 1000

=============================================================================
